---- MODULE Spec2Model ----
(***************************************************************************)
(* The lead query pipeline of src/src/hooks/useLeads.ts: the useLeads hook *)
(* keeps the filter, sort and page state and derives filteredLeads,        *)
(* sortedLeads and paginatedLeads from it through three memoised           *)
(* computations.  Every action below is one event handler of the hook      *)
(* followed by the render it schedules, in which each memo is recomputed   *)
(* when one of its dependencies changed.                                   *)
(*                                                                         *)
(* JavaScript strings are TLA+ strings; a character is a string of length  *)
(* one.  The view state (table or card) is presentation only and takes no  *)
(* part in the pipeline; it is not modelled.                               *)
(***************************************************************************)
EXTENDS Integers, Sequences, FiniteSets, TLC

(***************************************************************************)
(* Bounds of the model.                                                    *)
(***************************************************************************)
MaxLeads == 25
MaxPage == 4
MaxShortPage == 2

ITEMS_PER_PAGE == 10

(***************************************************************************)
(* Strings: String.prototype.toLowerCase, includes and the < operator.     *)
(***************************************************************************)
UpperCaseLetters == "ABCDEFGHIJKLMNOPQRSTUVWXYZ"
LowerCaseLetters == "abcdefghijklmnopqrstuvwxyz"

\* The characters of the model in UTF-16 code unit order.
CodeUnits == " ()-.0123456789@ABCDEFGHIJKLMNOPQRSTUVWXYZ_abcdefghijklmnopqrstuvwxyz"

CharAt(s, i) == SubSeq(s, i, i)

\* Upper-case letter |-> its lower-case letter.
RECURSIVE LowerTableFrom(_)
LowerTableFrom(i) ==
    IF i = Len(UpperCaseLetters)
    THEN CharAt(UpperCaseLetters, i) :> CharAt(LowerCaseLetters, i)
    ELSE (CharAt(UpperCaseLetters, i) :> CharAt(LowerCaseLetters, i))
           @@ LowerTableFrom(i + 1)

LowerTable == LowerTableFrom(1)

\* Character |-> its rank among the code units.
RECURSIVE CodeUnitTableFrom(_)
CodeUnitTableFrom(i) ==
    IF i = Len(CodeUnits) THEN CharAt(CodeUnits, i) :> i
    ELSE (CharAt(CodeUnits, i) :> i) @@ CodeUnitTableFrom(i + 1)

CodeUnitTable == CodeUnitTableFrom(1)

LowerChar(c) == IF c \in DOMAIN LowerTable THEN LowerTable[c] ELSE c

RECURSIVE lowerFrom(_, _)
lowerFrom(s, i) ==
    IF i > Len(s) THEN "" ELSE LowerChar(CharAt(s, i)) \o lowerFrom(s, i + 1)

toLowerCase(s) == lowerFrom(s, 1)

\* String.prototype.includes: q occurs in s as a contiguous substring.
strIncludes(s, q) ==
    \E i \in 1..(Len(s) - Len(q) + 1) : SubSeq(s, i, i + Len(q) - 1) = q

\* The < operator on two strings: lexicographic by code unit, from index i.
RECURSIVE lessFrom(_, _, _)
lessFrom(a, b, i) ==
    IF i > Len(b) THEN FALSE
    ELSE IF i > Len(a) THEN TRUE
    ELSE LET ca == CodeUnitTable[CharAt(a, i)]
             cb == CodeUnitTable[CharAt(b, i)]
         IN  IF ca # cb THEN ca < cb ELSE lessFrom(a, b, i + 1)

strLess(a, b) == lessFrom(a, b, 1)

\* Array.prototype.includes.
includes(arr, x) == \E i \in 1..Len(arr) : arr[i] = x

(***************************************************************************)
(* The lead records the hook is constructed with.                          *)
(***************************************************************************)
Sources == <<"web_form", "landing_page", "sms", "email", "manual">>
SortFields == {"name", "score", "createdAt"}
SortDirections == {"asc", "desc"}

GivenNames == <<"Dan", "eve", "dan", "Cy">>
Companies == <<"Acme", "Hale LLC", "acme inc">>
Phones == <<"(555) 234", "555-0100", "555 0100">>
TagLists == <<<<>>, <<"smb">>, <<"urgent", "smb">>, <<"enterprise">>>>

Pick(list, i) == list[(i % Len(list)) + 1]

Lead(i) ==
    CASE i = 1 -> [id |-> "1", name |-> "Bob", email |-> "bob@example.com",
                   phone |-> "(555) 345-6789", company |-> "Growth Co",
                   source |-> "sms", score |-> 50,
                   tags |-> <<"enterprise", "urgent">>, createdAt |-> 19735]
      [] i = 2 -> [id |-> "2", name |-> "Amy", email |-> "amy@example.com",
                   phone |-> "(555) 456-7890", company |-> "Digital LLC",
                   source |-> "email", score |-> 90,
                   tags |-> <<"smb">>, createdAt |-> 19732]
      [] i = 3 -> [id |-> "3", name |-> "Sarah Johnson",
                   email |-> "s.johnson@example.com",
                   phone |-> "(555) 123-4567", company |-> "Tech Startup Inc",
                   source |-> "web_form", score |-> 85,
                   tags |-> <<"high-priority", "enterprise">>,
                   createdAt |-> 19737]
      [] i = 4 -> [id |-> "4", name |-> "lee ito", email |-> "LEE@EXAMPLE.COM",
                   phone |-> "1-800-CALL-NOW", company |-> "Ito Group",
                   source |-> "manual", score |-> 50,
                   tags |-> <<>>, createdAt |-> 19735]
      [] OTHER -> [id |-> ToString(i), name |-> Pick(GivenNames, i),
                   email |-> "info@x.io",
                   phone |-> Pick(Phones, i), company |-> Pick(Companies, i),
                   source |-> Pick(Sources, i), score |-> ((i * 7) % 4) * 25,
                   tags |-> Pick(TagLists, i),
                   createdAt |-> 19730 + ((i * 3) % 5)]


\* The first n leads of the catalogue, in catalogue order.
LeadsOf(n) == [i \in 1..n |-> Lead(i)]

\* The sizes of the collections the hook is constructed with.  Short lists:
\* the two leads of the sort scenario and the hand-written leads.  Long
\* lists: none, one lead more than a page, and the largest collection.
LeadCounts == {2, 4}
LongLeadCounts == {0, ITEMS_PER_PAGE + 1, MaxLeads}

(***************************************************************************)
(* The arguments the handlers are called with, over a short list and over  *)
(* a long list.                                                            *)
(***************************************************************************)
Queries == {"", "sarah", "SARAH", "555-123", "CALL"}
SourceInputs == {"sms", "web_form"}
TagInputs == {"enterprise", "smb"}
PageInputs == 1..MaxShortPage
FieldInputs == SortFields

LongQueries == {"", "acme"}
LongSourceInputs == {"sms"}
LongTagInputs == {"smb"}
LongPageInputs == (0 - 1)..MaxPage
\* The type SortField is erased at run time: a caller can pass any string.
LongFieldInputs == SortFields \cup {"company"}

(***************************************************************************)
(* The three derivations of the render (useLeads.ts lines 61-130).         *)
(***************************************************************************)
\* Fault variant: the name, email and company are compared as stored, not
\* lower-cased.
matchesSearchAsStored(lead, query) ==
    \/ strIncludes(lead.name, query)
    \/ strIncludes(lead.email, query)
    \/ strIncludes(lead.company, query)
    \/ strIncludes(lead.phone, query)

matchesSearch(lead, query) ==
    \/ strIncludes(toLowerCase(lead.name), query)
    \/ strIncludes(toLowerCase(lead.email), query)
    \/ strIncludes(toLowerCase(lead.company), query)
    \/ strIncludes(lead.phone, query)

\* Fault variant: an empty selection of sources matches no lead.
filterCallbackEmptyMatchesNone(lead, q, srcs, tgs) ==
    IF q # "" /\ ~matchesSearch(lead, toLowerCase(q)) THEN FALSE
    ELSE IF ~includes(srcs, lead.source) THEN FALSE
    ELSE IF Len(tgs) > 0 /\ ~(\E i \in 1..Len(tgs) : includes(lead.tags, tgs[i]))
         THEN FALSE
    ELSE TRUE

\* Fault variant: a lead must carry every selected tag.
filterCallbackEveryTag(lead, q, srcs, tgs) ==
    IF q # "" /\ ~matchesSearch(lead, toLowerCase(q)) THEN FALSE
    ELSE IF Len(srcs) > 0 /\ ~includes(srcs, lead.source) THEN FALSE
    ELSE IF Len(tgs) > 0 /\ ~(\A i \in 1..Len(tgs) : includes(lead.tags, tgs[i]))
         THEN FALSE
    ELSE TRUE

\* The callback given to initialLeads.filter, with its early returns.
filterCallback(lead, q, srcs, tgs) ==
    IF q # "" /\ ~matchesSearch(lead, toLowerCase(q)) THEN FALSE
    ELSE IF Len(srcs) > 0 /\ ~includes(srcs, lead.source) THEN FALSE
    ELSE IF Len(tgs) > 0 /\ ~(\E i \in 1..Len(tgs) : includes(lead.tags, tgs[i]))
         THEN FALSE
    ELSE TRUE

\* Fault variant: the kept leads are collected in reverse order.
RECURSIVE reversed(_)
reversed(arr) ==
    IF Len(arr) = 0 THEN <<>> ELSE Append(reversed(Tail(arr)), Head(arr))

computeFilteredLeadsReversed(initialLeads, q, srcs, tgs) ==
    LET keep(lead) == filterCallback(lead, q, srcs, tgs)
    IN  reversed(SelectSeq(initialLeads, keep))

computeFilteredLeads(initialLeads, q, srcs, tgs) ==
    LET keep(lead) == filterCallback(lead, q, srcs, tgs)
    IN  SelectSeq(initialLeads, keep)

\* The key the comparator reads for a field; "none" for any other field.
SortKey(lead, field) ==
    CASE field = "name" -> toLowerCase(lead.name)
      [] field = "score" -> lead.score
      [] field = "createdAt" -> lead.createdAt
      [] OTHER -> "none"

KeyLess(field, x, y) ==
    IF field = "name" THEN strLess(x, y) ELSE x < y

\* Fault variant: the direction is not read; the order is always ascending.
compareLeadsAscending(a, b, field, direction) ==
    IF field \notin SortFields THEN 0
    ELSE LET aVal == SortKey(a, field)
             bVal == SortKey(b, field)
         IN  IF KeyLess(field, aVal, bVal) THEN 0 - 1
             ELSE IF KeyLess(field, bVal, aVal) THEN 1
             ELSE 0

\* Fault variant: a field that is not a sort field orders by score.
compareLeadsUnknownByScore(a, b, field, direction) ==
    LET by == IF field \in SortFields THEN field ELSE "score"
        aVal == SortKey(a, by)
        bVal == SortKey(b, by)
    IN  IF KeyLess(by, aVal, bVal)
            THEN (IF direction = "asc" THEN 0 - 1 ELSE 1)
        ELSE IF KeyLess(by, bVal, aVal)
            THEN (IF direction = "asc" THEN 1 ELSE 0 - 1)
        ELSE 0

\* The comparator given to sorted.sort: negative, zero or positive.
compareLeads(a, b, field, direction) ==
    IF field \notin SortFields THEN 0
    ELSE LET aVal == SortKey(a, field)
             bVal == SortKey(b, field)
         IN  IF KeyLess(field, aVal, bVal)
                 THEN (IF direction = "asc" THEN 0 - 1 ELSE 1)
             ELSE IF KeyLess(field, bVal, aVal)
                 THEN (IF direction = "asc" THEN 1 ELSE 0 - 1)
             ELSE 0

\* Array.prototype.sort is stable: an element goes after every element that
\* does not compare greater than it.
\* Fault variant: an element that compares equal to one already placed is
\* dropped.
InsertSortedDropEqual(acc, x, field, direction) ==
    LET after == {i \in 1..Len(acc) : compareLeads(acc[i], x, field, direction) > 0}
        k == IF after = {} THEN Len(acc) + 1
             ELSE CHOOSE i \in after : \A j \in after : i <= j
    IN  IF \E i \in 1..Len(acc) : compareLeads(acc[i], x, field, direction) = 0
        THEN acc
        ELSE SubSeq(acc, 1, k - 1) \o <<x>> \o SubSeq(acc, k, Len(acc))

\* Fault variant: an element goes before the elements it compares equal to.
InsertSortedBeforeEqual(acc, x, field, direction) ==
    LET after == {i \in 1..Len(acc) : compareLeads(acc[i], x, field, direction) >= 0}
        k == IF after = {} THEN Len(acc) + 1
             ELSE CHOOSE i \in after : \A j \in after : i <= j
    IN  SubSeq(acc, 1, k - 1) \o <<x>> \o SubSeq(acc, k, Len(acc))

InsertSorted(acc, x, field, direction) ==
    LET after == {i \in 1..Len(acc) : compareLeads(acc[i], x, field, direction) > 0}
        k == IF after = {} THEN Len(acc) + 1
             ELSE CHOOSE i \in after : \A j \in after : i <= j
    IN  SubSeq(acc, 1, k - 1) \o <<x>> \o SubSeq(acc, k, Len(acc))

RECURSIVE sortFrom(_, _, _, _, _)
sortFrom(acc, arr, i, field, direction) ==
    IF i > Len(arr) THEN acc
    ELSE sortFrom(InsertSorted(acc, arr[i], field, direction), arr, i + 1,
                  field, direction)

computeSortedLeads(filtered, field, direction) ==
    sortFrom(<<>>, filtered, 1, field, direction)

Min(a, b) == IF a < b THEN a ELSE b
Max(a, b) == IF a > b THEN a ELSE b

\* Array.prototype.slice(start, end) on zero-based indices; a negative index
\* counts from the end of the array.
slice(arr, start, end) ==
    LET n == Len(arr)
        from == IF start < 0 THEN Max(n + start, 0) ELSE Min(start, n)
        to == IF end < 0 THEN Max(n + end, 0) ELSE Min(end, n)
    IN  SubSeq(arr, from + 1, to)

\* Fault variant: the end index is one short, so a page holds one lead less.
computePaginatedLeadsShort(sorted, page) ==
    LET startIndex == (page - 1) * ITEMS_PER_PAGE
        endIndex == startIndex + ITEMS_PER_PAGE - 1
    IN  slice(sorted, startIndex, endIndex)

\* Fault variant: the pages are counted from 0, so page 1 starts at the
\* eleventh lead.
computePaginatedLeadsFromZero(sorted, page) ==
    LET startIndex == page * ITEMS_PER_PAGE
        endIndex == startIndex + ITEMS_PER_PAGE
    IN  slice(sorted, startIndex, endIndex)

computePaginatedLeads(sorted, page) ==
    LET startIndex == (page - 1) * ITEMS_PER_PAGE
        endIndex == startIndex + ITEMS_PER_PAGE
    IN  slice(sorted, startIndex, endIndex)

\* Fault variant: the page count is rounded down.
computeTotalPagesFloor(n) == n \div ITEMS_PER_PAGE

\* Math.ceil(n / ITEMS_PER_PAGE) for n >= 0.
computeTotalPages(n) == (n + ITEMS_PER_PAGE - 1) \div ITEMS_PER_PAGE

(***************************************************************************)
(* The state of the hook.                                                  *)
(***************************************************************************)
VARIABLES
    initialLeads,      \* the leads prop
    searchQuery, selectedSources, selectedTags,
    sortField, sortDirection,
    currentPage,
    filteredLeads, sortedLeads, paginatedLeads,   \* the three memos
    lastOp             \* the handler that ran last, with its argument

vars == <<initialLeads, searchQuery, selectedSources, selectedTags, sortField,
          sortDirection, currentPage, filteredLeads, sortedLeads,
          paginatedLeads, lastOp>>

totalLeads == Len(sortedLeads)
totalPages == computeTotalPages(Len(sortedLeads))

\* LeadList renders the pagination controls under this guard.
paginationRendered == totalPages > 0

\* Fault variant: the range ends at the end of a full page, also on the last
\* page.
endItemOfFullPage == currentPage * ITEMS_PER_PAGE

\* The range PaginationControls displays ("Showing startItem to endItem of
\* totalItems"), from the props LeadList passes: currentPage, totalLeads and
\* ITEMS_PER_PAGE.
startItem == (currentPage - 1) * ITEMS_PER_PAGE + 1
endItem == Min(currentPage * ITEMS_PER_PAGE, totalLeads)

\* Fault variant: Next stays enabled on the last page.
canGoNextOnLastPage == currentPage < totalPages + 1

\* The Previous and Next buttons are disabled unless these hold.
canGoPrev == currentPage > 1
canGoNext == currentPage < totalPages

\* LeadFilters shows "Clear all" under this guard.
hasActiveFilters == Len(selectedSources) > 0 \/ Len(selectedTags) > 0

\* Fault variant: the sort is done in place on filteredLeads, not on a copy.
RenderSortsInPlace ==
    LET filtered ==
          IF <<initialLeads', searchQuery', selectedSources', selectedTags'>>
               # <<initialLeads, searchQuery, selectedSources, selectedTags>>
          THEN computeFilteredLeads(initialLeads', searchQuery',
                                    selectedSources', selectedTags')
          ELSE filteredLeads
    IN  /\ sortedLeads' =
             IF <<filtered, sortField', sortDirection'>>
                  # <<filteredLeads, sortField, sortDirection>>
             THEN computeSortedLeads(filtered, sortField', sortDirection')
             ELSE sortedLeads
        /\ filteredLeads' =
             IF <<filtered, sortField', sortDirection'>>
                  # <<filteredLeads, sortField, sortDirection>>
             THEN sortedLeads'
             ELSE filtered
        /\ paginatedLeads' =
             IF <<sortedLeads', currentPage'>> # <<sortedLeads, currentPage>>
             THEN computePaginatedLeads(sortedLeads', currentPage')
             ELSE paginatedLeads

\* Fault variant: sortedLeads is missing from the dependencies of the
\* paginatedLeads memo.
RenderStalePage ==
    /\ filteredLeads' =
         IF <<initialLeads', searchQuery', selectedSources', selectedTags'>>
              # <<initialLeads, searchQuery, selectedSources, selectedTags>>
         THEN computeFilteredLeads(initialLeads', searchQuery',
                                   selectedSources', selectedTags')
         ELSE filteredLeads
    /\ sortedLeads' =
         IF <<filteredLeads', sortField', sortDirection'>>
              # <<filteredLeads, sortField, sortDirection>>
         THEN computeSortedLeads(filteredLeads', sortField', sortDirection')
         ELSE sortedLeads
    /\ paginatedLeads' =
         IF currentPage' # currentPage
         THEN computePaginatedLeads(sortedLeads', currentPage')
         ELSE paginatedLeads

\* Fault variant: sortDirection is missing from the dependencies of the
\* sortedLeads memo.
RenderStaleDirection ==
    /\ filteredLeads' =
         IF <<initialLeads', searchQuery', selectedSources', selectedTags'>>
              # <<initialLeads, searchQuery, selectedSources, selectedTags>>
         THEN computeFilteredLeads(initialLeads', searchQuery',
                                   selectedSources', selectedTags')
         ELSE filteredLeads
    /\ sortedLeads' =
         IF <<filteredLeads', sortField'>> # <<filteredLeads, sortField>>
         THEN computeSortedLeads(filteredLeads', sortField', sortDirection')
         ELSE sortedLeads
    /\ paginatedLeads' =
         IF <<sortedLeads', currentPage'>> # <<sortedLeads, currentPage>>
         THEN computePaginatedLeads(sortedLeads', currentPage')
         ELSE paginatedLeads

\* The render that follows a handler: each memo is recomputed when one of its
\* dependencies differs from the previous render, and kept otherwise.
Render ==
    /\ filteredLeads' =
         IF <<initialLeads', searchQuery', selectedSources', selectedTags'>>
              # <<initialLeads, searchQuery, selectedSources, selectedTags>>
         THEN computeFilteredLeads(initialLeads', searchQuery',
                                   selectedSources', selectedTags')
         ELSE filteredLeads
    /\ sortedLeads' =
         IF <<filteredLeads', sortField', sortDirection'>>
              # <<filteredLeads, sortField, sortDirection>>
         THEN computeSortedLeads(filteredLeads', sortField', sortDirection')
         ELSE sortedLeads
    /\ paginatedLeads' =
         IF <<sortedLeads', currentPage'>> # <<sortedLeads, currentPage>>
         THEN computePaginatedLeads(sortedLeads', currentPage')
         ELSE paginatedLeads

InitOver(counts) ==
    /\ initialLeads \in {LeadsOf(n) : n \in counts}
    /\ searchQuery = ""
    /\ selectedSources = <<>>
    /\ selectedTags = <<>>
    /\ sortField = "createdAt"
    /\ sortDirection = "desc"
    /\ currentPage = 1
    /\ filteredLeads = computeFilteredLeads(initialLeads, "", <<>>, <<>>)
    /\ sortedLeads = computeSortedLeads(filteredLeads, "createdAt", "desc")
    /\ paginatedLeads = computePaginatedLeads(sortedLeads, 1)
    /\ lastOp = [op |-> "mount", arg |-> ""]

Init == InitOver(LeadCounts)
InitLong == InitOver(LongLeadCounts)

\* Fault variant: a value that is selected stays selected.
toggledAddOnly(prev, x) ==
    IF includes(prev, x) THEN prev ELSE Append(prev, x)

\* Fault variant: removing a value drops its first occurrence and adding a
\* value appends it twice.
RECURSIVE withoutFirst(_, _)
withoutFirst(prev, x) ==
    IF Len(prev) = 0 THEN <<>>
    ELSE IF Head(prev) = x THEN Tail(prev)
    ELSE <<Head(prev)>> \o withoutFirst(Tail(prev), x)

toggledAppendTwice(prev, x) ==
    IF includes(prev, x) THEN withoutFirst(prev, x) ELSE prev \o <<x, x>>

\* prev.includes(x) ? prev.filter(s => s !== x) : [...prev, x]
toggled(prev, x) ==
    IF includes(prev, x)
    THEN LET other(s) == s # x IN SelectSeq(prev, other)
    ELSE Append(prev, x)

toggleSource(source) ==
    /\ selectedSources' = toggled(selectedSources, source)
    /\ currentPage' = 1
    /\ UNCHANGED <<initialLeads, searchQuery, selectedTags, sortField, sortDirection>>
    /\ lastOp' = [op |-> "toggleSource", arg |-> source]
    /\ Render

\* Fault variant: the tag is toggled but the page is left where it was.
toggleTagKeepsPage(tag) ==
    /\ selectedTags' = toggled(selectedTags, tag)
    /\ UNCHANGED <<initialLeads, searchQuery, selectedSources, sortField,
                   sortDirection, currentPage>>
    /\ lastOp' = [op |-> "toggleTag", arg |-> tag]
    /\ Render

toggleTag(tag) ==
    /\ selectedTags' = toggled(selectedTags, tag)
    /\ currentPage' = 1
    /\ UNCHANGED <<initialLeads, searchQuery, selectedSources, sortField, sortDirection>>
    /\ lastOp' = [op |-> "toggleTag", arg |-> tag]
    /\ Render

handleSetSearchQuery(query) ==
    /\ searchQuery' = query
    /\ currentPage' = 1
    /\ UNCHANGED <<initialLeads, selectedSources, selectedTags, sortField, sortDirection>>
    /\ lastOp' = [op |-> "setSearchQuery", arg |-> query]
    /\ Render

\* Fault variant: a change of field keeps the direction.
nextSortStateKeepsDirection(current, direction, field) ==
    IF current = field
    THEN [field |-> current,
          direction |-> IF direction = "asc" THEN "desc" ELSE "asc"]
    ELSE [field |-> field, direction |-> direction]

\* Fault variant: the same field sets the direction to asc instead of
\* flipping it.
nextSortStateAlwaysAsc(current, direction, field) ==
    IF current = field
    THEN [field |-> current, direction |-> "asc"]
    ELSE [field |-> field, direction |-> "desc"]

\* The sort state handleSetSortField(field) writes: the same field flips the
\* direction, another field is taken with direction desc.
nextSortState(current, direction, field) ==
    IF current = field
    THEN [field |-> current,
          direction |-> IF direction = "asc" THEN "desc" ELSE "asc"]
    ELSE [field |-> field, direction |-> "desc"]

\* Fault variant: sorting goes back to the first page.
handleSetSortFieldResetsPage(field) ==
    /\ sortField' = nextSortState(sortField, sortDirection, field).field
    /\ sortDirection' = nextSortState(sortField, sortDirection, field).direction
    /\ currentPage' = 1
    /\ UNCHANGED <<initialLeads, searchQuery, selectedSources, selectedTags>>
    /\ lastOp' = [op |-> "setSortField", arg |-> field]
    /\ Render

handleSetSortField(field) ==
    /\ sortField' = nextSortState(sortField, sortDirection, field).field
    /\ sortDirection' = nextSortState(sortField, sortDirection, field).direction
    /\ UNCHANGED <<initialLeads, searchQuery, selectedSources, selectedTags, currentPage>>
    /\ lastOp' = [op |-> "setSortField", arg |-> field]
    /\ Render

\* The sort state after one call of the handleSetSortField callback that a
\* render with sortField = seen created, the updates queued before the call
\* leading to the sort state queued: the callback compares the field with
\* seen; its direction flip is a functional update of the queued direction.
sortStateAfterCall(seen, queued, field) ==
    IF seen = field
    THEN [field |-> queued.field,
          direction |-> IF queued.direction = "asc" THEN "desc" ELSE "asc"]
    ELSE [field |-> field, direction |-> "desc"]

\* The same handleSetSortField callback called twice with one field in one
\* batch: both calls come before the render that would create a callback
\* over the new sortField.
handleSetSortFieldTwice(field) ==
    LET first == sortStateAfterCall(sortField,
                     [field |-> sortField, direction |-> sortDirection], field)
        second == sortStateAfterCall(sortField, first, field)
    IN  /\ sortField' = second.field
        /\ sortDirection' = second.direction
        /\ UNCHANGED <<initialLeads, searchQuery, selectedSources, selectedTags,
                       currentPage>>
        /\ lastOp' = [op |-> "setSortFieldTwice", arg |-> field]
        /\ Render

\* Fault variant: the direction is flipped, whatever the argument is.
setSortDirectionFlips(direction) ==
    /\ sortDirection' = IF sortDirection = "asc" THEN "desc" ELSE "asc"
    /\ UNCHANGED <<initialLeads, searchQuery, selectedSources, selectedTags,
                   sortField, currentPage>>
    /\ lastOp' = [op |-> "setSortDirection", arg |-> direction]
    /\ Render

setSortDirection(direction) ==
    /\ sortDirection' = direction
    /\ UNCHANGED <<initialLeads, searchQuery, selectedSources, selectedTags,
                   sortField, currentPage>>
    /\ lastOp' = [op |-> "setSortDirection", arg |-> direction]
    /\ Render

\* Fault variant: a page above the last one is clamped to the last one.
setCurrentPageClamped(page) ==
    /\ currentPage' = IF page > totalPages THEN Max(totalPages, 1) ELSE page
    /\ UNCHANGED <<initialLeads, searchQuery, selectedSources, selectedTags,
                   sortField, sortDirection>>
    /\ lastOp' = [op |-> "setCurrentPage", arg |-> page]
    /\ Render

setCurrentPage(page) ==
    /\ currentPage' = page
    /\ UNCHANGED <<initialLeads, searchQuery, selectedSources, selectedTags,
                   sortField, sortDirection>>
    /\ lastOp' = [op |-> "setCurrentPage", arg |-> page]
    /\ Render

\* Fault variant: the selected tags are not cleared.
clearFiltersKeepsTags ==
    /\ searchQuery' = ""
    /\ selectedSources' = <<>>
    /\ currentPage' = 1
    /\ UNCHANGED <<initialLeads, selectedTags, sortField, sortDirection>>
    /\ lastOp' = [op |-> "clearFilters", arg |-> ""]
    /\ Render

clearFilters ==
    /\ searchQuery' = ""
    /\ selectedSources' = <<>>
    /\ selectedTags' = <<>>
    /\ currentPage' = 1
    /\ UNCHANGED <<initialLeads, sortField, sortDirection>>
    /\ lastOp' = [op |-> "clearFilters", arg |-> ""]
    /\ Render

resetPagination ==
    /\ currentPage' = 1
    /\ UNCHANGED <<initialLeads, searchQuery, selectedSources, selectedTags,
                   sortField, sortDirection>>
    /\ lastOp' = [op |-> "resetPagination", arg |-> ""]
    /\ Render

NextOver(queries, sources, tags, fields, pages) ==
    \/ \E s \in sources : toggleSource(s)
    \/ \E t \in tags : toggleTag(t)
    \/ \E q \in queries : handleSetSearchQuery(q)
    \/ \E f \in fields : handleSetSortField(f)
    \/ \E f \in fields : handleSetSortFieldTwice(f)
    \/ \E d \in SortDirections : setSortDirection(d)
    \/ \E p \in pages : setCurrentPage(p)
    \/ clearFilters
    \/ resetPagination

Next == NextOver(Queries, SourceInputs, TagInputs, FieldInputs, PageInputs)
NextLong ==
    NextOver(LongQueries, LongSourceInputs, LongTagInputs, LongFieldInputs,
             LongPageInputs)

\* The hook over a short list of leads, and over a list of several pages.
Spec == Init /\ [][Next]_vars
SpecLong == InitLong /\ [][NextLong]_vars

(***************************************************************************)
(* The hook as LeadList mounts it (lead-list.tsx): the events are those the *)
(* rendered controls can issue, and an effect calls resetPagination after   *)
(* the mount and after every commit in which searchQuery, selectedSources   *)
(* or selectedTags changed.                                                 *)
(***************************************************************************)
\* The effect is due after the mount and after the commit of a handler that
\* wrote a filter cell: the toggles and clearFilters always store a new
\* array, and the search input reports a value only when it has changed.
\* React runs the effect of a commit before it handles the next event.
effectPending ==
    lastOp.op \in {"mount", "toggleSource", "toggleTag", "setSearchQuery",
                   "clearFilters"}

resetPaginationEffect == effectPending /\ resetPagination

\* LeadSearchBar: typing, or the clear button shown for a non-empty value.
onSearchChange(value) ==
    /\ ~effectPending
    /\ value # searchQuery
    /\ handleSetSearchQuery(value)

onSourceToggle(source) == ~effectPending /\ toggleSource(source)
onTagToggle(tag) == ~effectPending /\ toggleTag(tag)

onClearAll == ~effectPending /\ hasActiveFilters /\ clearFilters

\* SortControls: the select reports a field only when it has changed.
onFieldChange(field) ==
    /\ ~effectPending
    /\ field # sortField
    /\ handleSetSortField(field)

onDirectionToggle ==
    /\ ~effectPending
    /\ setSortDirection(IF sortDirection = "asc" THEN "desc" ELSE "asc")

\* PaginationControls: the Previous and Next buttons.
onPreviousPage ==
    /\ ~effectPending
    /\ paginationRendered
    /\ canGoPrev
    /\ setCurrentPage(currentPage - 1)

onNextPage ==
    /\ ~effectPending
    /\ paginationRendered
    /\ canGoNext
    /\ setCurrentPage(currentPage + 1)

NextUI ==
    \/ resetPaginationEffect
    \/ \E q \in LongQueries : onSearchChange(q)
    \/ \E s \in LongSourceInputs : onSourceToggle(s)
    \/ \E t \in LongTagInputs : onTagToggle(t)
    \/ onClearAll
    \/ \E f \in SortFields : onFieldChange(f)
    \/ onDirectionToggle
    \/ onPreviousPage
    \/ onNextPage

SpecUI == InitLong /\ [][NextUI]_vars

(***************************************************************************)
(* Properties.                                                             *)
(***************************************************************************)
Range(seq) == {seq[i] : i \in 1..Len(seq)}
FilterOps == {"setSearchQuery", "toggleSource", "toggleTag"}

\* C1: right after setSearchQuery, toggleSource or toggleTag has run, with
\* any argument and from any state, currentPage is 1.
C1_FilterOpsResetPage == lastOp.op \in FilterOps => currentPage = 1

\* toggleTag has just run, after a search and a source toggle.
C1_Witness ==
    /\ lastOp.op = "toggleTag"
    /\ currentPage = 1
    /\ searchQuery # ""
    /\ selectedSources # <<>>

\* C2: in every state the three memos hold the derivation of the current
\* state: filter of the current filter state, sort of that by the current
\* sort state, slice of that at the current page; totalLeads and totalPages
\* are taken from that same sorted sequence.
C2_DerivedFromCurrentState ==
    LET f == computeFilteredLeads(initialLeads, searchQuery, selectedSources,
                                  selectedTags)
        st == computeSortedLeads(f, sortField, sortDirection)
    IN  /\ filteredLeads = f
        /\ sortedLeads = st
        /\ paginatedLeads = computePaginatedLeads(st, currentPage)
        /\ totalLeads = Len(st)
        /\ totalPages = computeTotalPages(Len(st))

\* Search, sort and page all differ from their initial values and the page
\* shows leads.
C2_Witness ==
    /\ searchQuery # ""
    /\ sortField = "name"
    /\ sortDirection = "asc"
    /\ currentPage = 2
    /\ paginatedLeads # <<>>

\* s is a subsequence of t: the elements of s occur in t in the same order.
RECURSIVE IsSubsequenceFrom(_, _, _, _)
IsSubsequenceFrom(s, t, i, j) ==
    IF i > Len(s) THEN TRUE
    ELSE IF j > Len(t) THEN FALSE
    ELSE IF s[i] = t[j] THEN IsSubsequenceFrom(s, t, i + 1, j + 1)
    ELSE IsSubsequenceFrom(s, t, i, j + 1)

IsSubsequence(s, t) == IsSubsequenceFrom(s, t, 1, 1)

\* C3: filteredLeads is a subsequence of the input leads: only input leads,
\* none more often than in the input, in input order.
C3_FilteredIsSubsequence == IsSubsequence(filteredLeads, initialLeads)

\* A filter is active and keeps several leads but not all of them.
C3_Witness ==
    /\ lastOp.op \in FilterOps
    /\ Len(filteredLeads) >= 2
    /\ Len(filteredLeads) < Len(initialLeads)

Occurrences(seq, id) == Cardinality({i \in 1..Len(seq) : seq[i].id = id})

\* C4: sortedLeads is a permutation of filteredLeads (each identifier occurs
\* as often in one as in the other), so totalLeads is the number of filtered
\* leads.
C4_SortedIsPermutation ==
    /\ \A l \in Range(filteredLeads) \cup Range(sortedLeads) :
          Occurrences(sortedLeads, l.id) = Occurrences(filteredLeads, l.id)
    /\ totalLeads = Len(filteredLeads)

\* A sort has reordered a filtered list in which two leads have equal keys.
C4_Witness ==
    /\ lastOp.op \in {"setSortField", "setSortDirection"}
    /\ filteredLeads # initialLeads
    /\ sortedLeads # filteredLeads
    /\ \E i, j \in 1..Len(filteredLeads) :
          /\ i # j
          /\ SortKey(filteredLeads[i], sortField) = SortKey(filteredLeads[j], sortField)

RECURSIVE PagesUpTo(_, _)
PagesUpTo(sorted, p) ==
    IF p = 0 THEN <<>>
    ELSE PagesUpTo(sorted, p - 1) \o computePaginatedLeads(sorted, p)

\* C5: the pages 1, 2, ..., totalPages of sortedLeads, concatenated in that
\* order, are sortedLeads: no lead twice, none left out.
C5_PagesReconstructSorted == PagesUpTo(sortedLeads, totalPages) = sortedLeads

\* The sorted list spans several pages, the last one partly filled.
C5_Witness ==
    /\ totalPages >= 2
    /\ Len(sortedLeads) % ITEMS_PER_PAGE # 0
    /\ sortedLeads # initialLeads

\* The three filter dimensions of the current filter state, as sets.
SearchDimension(lead) ==
    searchQuery = "" \/ matchesSearch(lead, toLowerCase(searchQuery))
SourceDimension(lead) ==
    selectedSources = <<>> \/ lead.source \in Range(selectedSources)
TagDimension(lead) ==
    selectedTags = <<>> \/ Range(lead.tags) \cap Range(selectedTags) # {}

\* C6: filteredLeads holds exactly the leads that pass the search dimension
\* and the source dimension and the tag dimension, an empty dimension passing
\* every lead; with all three empty it is the input list, and with sources
\* selected every filtered lead has a selected source.
C6_FilterIsConjunction ==
    /\ \A l \in Range(initialLeads) :
          l \in Range(filteredLeads)
            <=> (SearchDimension(l) /\ SourceDimension(l) /\ TagDimension(l))
    /\ (searchQuery = "" /\ selectedSources = <<>> /\ selectedTags = <<>>)
          => filteredLeads = initialLeads
    /\ selectedSources # <<>>
          => \A l \in Range(filteredLeads) : l.source \in Range(selectedSources)

\* All three dimensions are set; some leads pass them and some do not.
C6_Witness ==
    /\ searchQuery # ""
    /\ selectedSources # <<>>
    /\ selectedTags # <<>>
    /\ filteredLeads # <<>>
    /\ filteredLeads # initialLeads

HasTagIn(lead, tgs) == \E t \in Range(tgs) : t \in Range(lead.tags)

\* With tags selected, a lead that passes the other two dimensions is in
\* filteredLeads exactly if it has one of the selected tags; of the two leads
\* of the tag scenario only the first passes {enterprise}.
C7_TagState ==
    selectedTags # <<>> =>
      /\ \A l \in Range(initialLeads) :
            (SearchDimension(l) /\ SourceDimension(l))
              => (l \in Range(filteredLeads) <=> HasTagIn(l, selectedTags))
      /\ (/\ initialLeads = LeadsOf(2)
          /\ selectedTags = <<"enterprise">>
          /\ searchQuery = ""
          /\ selectedSources = <<>>) => filteredLeads = <<Lead(1)>>

\* Adding a tag to a non-empty selection removes no lead.
C7_TagStep ==
    (/\ lastOp'.op = "toggleTag"
     /\ selectedTags # <<>>
     /\ Len(selectedTags') > Len(selectedTags))
      => Range(filteredLeads) \subseteq Range(filteredLeads')

\* C7: with selectedTags non-empty a lead passes the tag dimension if and
\* only if it has at least one selected tag (OR semantics), as in the
\* scenario {enterprise, urgent} / {smb} against {enterprise}, and adding a
\* tag to the selection never removes a lead.
C7_TagOrSemantics == [](C7_TagState) /\ [][C7_TagStep]_vars

\* A second tag has just been selected; some leads pass and some do not.
C7_Witness ==
    /\ lastOp.op = "toggleTag"
    /\ Len(selectedTags) = 2
    /\ filteredLeads # <<>>
    /\ filteredLeads # initialLeads

\* C8: for a non-empty searchQuery, a lead whose stored phone contains the
\* query as typed (no case transformation of either) passes the search
\* dimension; "555-123" does not match the phone "(555) 123-4567".
C8_PhoneMatchedAsTyped ==
    searchQuery # "" =>
      /\ \A l \in Range(initialLeads) :
            (strIncludes(l.phone, searchQuery) /\ SourceDimension(l)
               /\ TagDimension(l)) => l \in Range(filteredLeads)
      /\ searchQuery = "555-123"
            => \A l \in Range(filteredLeads) : l.phone # "(555) 123-4567"

\* Two characters are equal, or the same letter in different case.
SameLetter(c, d) ==
    \/ c = d
    \/ \E i \in 1..Len(UpperCaseLetters) :
          {c, d} = {CharAt(UpperCaseLetters, i), CharAt(LowerCaseLetters, i)}

ContainsIgnoringCase(text, q) ==
    \E i \in 1..(Len(text) - Len(q) + 1) :
        \A k \in 1..Len(q) : SameLetter(CharAt(text, i + k - 1), CharAt(q, k))

MatchesTextField(lead, q) ==
    \/ ContainsIgnoringCase(lead.name, q)
    \/ ContainsIgnoringCase(lead.email, q)
    \/ ContainsIgnoringCase(lead.company, q)

\* C9: for a non-empty searchQuery a lead passes the search dimension through
\* name, email or company exactly if one of them contains the query, case
\* ignored on both sides; "sarah" and "SARAH" both match "Sarah Johnson".
C9_TextSearchIgnoresCase ==
    searchQuery # "" =>
      /\ \A l \in Range(initialLeads) :
            (SourceDimension(l) /\ TagDimension(l)) =>
               /\ MatchesTextField(l, searchQuery) => l \in Range(filteredLeads)
               /\ l \in Range(filteredLeads) =>
                     \/ MatchesTextField(l, searchQuery)
                     \/ strIncludes(l.phone, toLowerCase(searchQuery))
      /\ (/\ searchQuery \in {"sarah", "SARAH"}
          /\ selectedSources = <<>>
          /\ selectedTags = <<>>
          /\ Lead(3) \in Range(initialLeads)) => Lead(3) \in Range(filteredLeads)

\* The upper-case query has found Sarah Johnson by her name alone.
C9_Witness ==
    /\ lastOp.op = "setSearchQuery"
    /\ searchQuery = "SARAH"
    /\ filteredLeads = <<Lead(3)>>

PositionOf(seq, id) == CHOOSE k \in 1..Len(seq) : seq[k].id = id

\* C10: two leads of filteredLeads whose keys under the current sort field
\* are equal stand in sortedLeads in the order they have in filteredLeads,
\* for every field and direction.
C10_SortIsStable ==
    \A i, j \in 1..Len(filteredLeads) :
        (/\ i < j
         /\ SortKey(filteredLeads[i], sortField) = SortKey(filteredLeads[j], sortField))
          => PositionOf(sortedLeads, filteredLeads[i].id)
               < PositionOf(sortedLeads, filteredLeads[j].id)

\* A descending sort by score has reordered a list in which leads share a
\* score.
C10_Witness ==
    /\ sortField = "score"
    /\ sortDirection = "desc"
    /\ sortedLeads # filteredLeads
    /\ \E i, j \in 1..Len(filteredLeads) :
          /\ i < j
          /\ filteredLeads[i].score = filteredLeads[j].score

\* The key of a lead under a field: the lower-cased name, the score, the
\* createdAt instant.
KeyOf(lead, field) ==
    CASE field = "name" -> toLowerCase(lead.name)
      [] field = "score" -> lead.score
      [] field = "createdAt" -> lead.createdAt

KeyLeq(field, x, y) ==
    IF field = "name" THEN x = y \/ strLess(x, y) ELSE x <= y

\* C11: sortedLeads is ordered by the key of the current sort field: with asc
\* each key is at most the next one, with desc at least the next one; the
\* list [Bob(50), Amy(90)] by name asc and by score desc is [Amy, Bob].
C11_SortedByKey ==
    /\ \A i \in 1..(Len(sortedLeads) - 1) :
          LET x == KeyOf(sortedLeads[i], sortField)
              y == KeyOf(sortedLeads[i + 1], sortField)
          IN  IF sortDirection = "asc" THEN KeyLeq(sortField, x, y)
              ELSE KeyLeq(sortField, y, x)
    /\ (/\ filteredLeads = <<Lead(1), Lead(2)>>
        /\ \/ sortField = "name" /\ sortDirection = "asc"
           \/ sortField = "score" /\ sortDirection = "desc")
          => sortedLeads = <<Lead(2), Lead(1)>>

\* The four hand-written leads by name, ascending: the lower-case name
\* "lee ito" stands before "Sarah Johnson".
C11_Witness ==
    /\ sortField = "name"
    /\ sortDirection = "asc"
    /\ sortedLeads = <<Lead(2), Lead(1), Lead(4), Lead(3)>>

\* C12: setSortField(f) with f the current field keeps the field and flips
\* the direction; with another f it sets the field to f and the direction
\* to desc, whatever the direction was.
C12_SetSortFieldStep ==
    lastOp'.op = "setSortField" =>
        IF lastOp'.arg = sortField
        THEN /\ sortField' = sortField
             /\ sortDirection' # sortDirection
             /\ sortDirection' \in SortDirections
        ELSE /\ sortField' = lastOp'.arg
             /\ sortDirection' = "desc"

C12_SetSortField == [][C12_SetSortFieldStep]_vars

\* Only the flip of a descending sort by name leaves the direction asc
\* right after setSortField.
C12_Witness ==
    /\ lastOp = [op |-> "setSortField", arg |-> "name"]
    /\ sortField = "name"
    /\ sortDirection = "asc"

\* C13: after setSortField(currentField) has run, running it once more gives
\* back the sort field and direction from before the first call.
C13_TwiceStep ==
    (lastOp'.op = "setSortField" /\ lastOp'.arg = sortField) =>
        nextSortState(sortField', sortDirection', sortField')
          = [field |-> sortField, direction |-> sortDirection]

C13_SetSortFieldTwice == [][C13_TwiceStep]_vars

\* setSortField("score") has flipped a descending sort by score.
C13_Witness ==
    /\ lastOp = [op |-> "setSortField", arg |-> "score"]
    /\ sortField = "score"
    /\ sortDirection = "asc"
    /\ sortedLeads # filteredLeads

\* C14: setSortField(f) leaves currentPage, searchQuery, selectedSources and
\* selectedTags as they were, and with them filteredLeads, totalLeads and
\* totalPages; sortedLeads keeps its leads and may only change their order.
C14_SortFrameStep ==
    lastOp'.op = "setSortField" =>
        /\ currentPage' = currentPage
        /\ searchQuery' = searchQuery
        /\ selectedSources' = selectedSources
        /\ selectedTags' = selectedTags
        /\ filteredLeads' = filteredLeads
        /\ totalLeads' = totalLeads
        /\ totalPages' = totalPages
        /\ \A l \in Range(sortedLeads) \cup Range(sortedLeads') :
              Occurrences(sortedLeads', l.id) = Occurrences(sortedLeads, l.id)

C14_SetSortFieldFrame == [][C14_SortFrameStep]_vars

\* setSortField has run on page 2 of a searched list and the page still
\* shows leads.
C14_Witness ==
    /\ lastOp.op = "setSortField"
    /\ currentPage = 2
    /\ searchQuery # ""
    /\ paginatedLeads # <<>>

\* C15: clearFilters empties searchQuery, selectedSources and selectedTags,
\* sets currentPage to 1 and leaves sortField and sortDirection as they
\* were; afterwards filteredLeads is the input list.
C15_ClearStep ==
    lastOp'.op = "clearFilters" =>
        /\ searchQuery' = ""
        /\ selectedSources' = <<>>
        /\ selectedTags' = <<>>
        /\ currentPage' = 1
        /\ sortField' = sortField
        /\ sortDirection' = sortDirection
        /\ filteredLeads' = initialLeads'

C15_ClearFilters == [][C15_ClearStep]_vars

\* clearFilters has run under a sort that is not the initial one.
C15_Witness ==
    /\ lastOp.op = "clearFilters"
    /\ sortField = "name"
    /\ sortDirection = "asc"
    /\ filteredLeads = initialLeads
    /\ currentPage = 1

\* The members of a selection other than x, in order.
Without(sel, x) == LET other(s) == s # x IN SelectSeq(sel, other)

\* What one toggle of x does to a selection, and what a second one does.
ToggleEffect(before, after, x) ==
    /\ IF x \in Range(before)
       THEN x \notin Range(after)
       ELSE x \in Range(after)
    /\ Without(after, x) = Without(before, x)
    /\ Range(toggled(after, x)) = Range(before)

\* C16: toggleSource(s) adds s to selectedSources when absent and removes it
\* when present, the other members staying as they were; likewise toggleTag;
\* the same toggle once more gives back the set selected before.
C16_ToggleStep ==
    /\ lastOp'.op = "toggleSource"
          => ToggleEffect(selectedSources, selectedSources', lastOp'.arg)
    /\ lastOp'.op = "toggleTag"
          => ToggleEffect(selectedTags, selectedTags', lastOp'.arg)

C16_ToggleSymmetric == [][C16_ToggleStep]_vars

\* toggleSource has removed one of two selected sources; the other remains.
C16_Witness ==
    /\ lastOp.op = "toggleSource"
    /\ lastOp.arg \notin Range(selectedSources)
    /\ Len(selectedSources) = 1
    /\ Len(selectedTags) = 2

\* C17: setCurrentPage(p) stores p as currentPage, not clamped against
\* totalPages, and leaves the filter and sort state as they were; when p is
\* above totalPages the page shown is empty.
C17_SetPageStep ==
    lastOp'.op = "setCurrentPage" =>
        /\ currentPage' = lastOp'.arg
        /\ searchQuery' = searchQuery
        /\ selectedSources' = selectedSources
        /\ selectedTags' = selectedTags
        /\ sortField' = sortField
        /\ sortDirection' = sortDirection
        /\ lastOp'.arg > totalPages' => paginatedLeads' = <<>>

C17_SetCurrentPage == [][C17_SetPageStep]_vars

\* A page above the last of several pages has been set and shows nothing.
C17_Witness ==
    /\ lastOp.op = "setCurrentPage"
    /\ totalPages >= 2
    /\ currentPage > totalPages
    /\ paginatedLeads = <<>>

\* C18: whenever currentPage is outside 1..totalPages (0 and negative pages
\* included, lists longer than a page included) the page shown is empty.
C18_OutOfRangePageEmpty ==
    currentPage \notin 1..totalPages => paginatedLeads = <<>>

\* C19: currentPage is at least 1 in every reachable state.
C19_PageAtLeastOne == currentPage >= 1

\* C20: totalPages is the ceiling of totalLeads / 10, and 0 exactly when
\* there are no leads; the pagination controls are rendered exactly when
\* totalPages > 0; 25 leads make 3 pages, page 3 holds 5 leads and page 4
\* none.
C20_PageCount ==
    /\ totalPages * ITEMS_PER_PAGE >= totalLeads
    /\ totalPages * ITEMS_PER_PAGE < totalLeads + ITEMS_PER_PAGE
    /\ totalPages = 0 <=> totalLeads = 0
    /\ paginationRendered <=> totalPages > 0
    /\ paginationRendered <=> sortedLeads # <<>>
    /\ Len(filteredLeads) = 25 =>
          /\ totalPages = 3
          /\ currentPage = 3 => Len(paginatedLeads) = 5
          /\ currentPage = 4 => paginatedLeads = <<>>

\* Page 3 of 25 leads shows its 5 leads.
C20_Witness ==
    /\ Len(filteredLeads) = 25
    /\ totalPages = 3
    /\ currentPage = 3
    /\ Len(paginatedLeads) = 5
    /\ paginationRendered

\* C21: for currentPage in 1..totalPages, paginatedLeads is the run of
\* sortedLeads from index (currentPage-1)*10 up to, not including, index
\* min(currentPage*10, totalLeads), in sortedLeads order; it holds 10 leads
\* on every page but the last, and between 1 and 10 on the last.
C21_PageIsSlice ==
    currentPage \in 1..totalPages =>
        /\ paginatedLeads =
             SubSeq(sortedLeads, (currentPage - 1) * 10 + 1,
                    Min(currentPage * 10, totalLeads))
        /\ currentPage < totalPages => Len(paginatedLeads) = 10
        /\ currentPage = totalPages => Len(paginatedLeads) \in 1..10

\* The middle page of three, under a sort by name.
C21_Witness ==
    /\ currentPage = 2
    /\ totalPages = 3
    /\ sortField = "name"
    /\ Len(paginatedLeads) = 10

\* C22: when sortField is none of name, score and createdAt, sortedLeads is
\* filteredLeads in the same order, for asc and for desc; the comparator
\* returns 0 for every pair and the sort ends without an error.
C22_UnknownFieldKeepsOrder ==
    sortField \notin SortFields =>
        /\ sortedLeads = filteredLeads
        /\ \A i, j \in 1..Len(filteredLeads) :
              compareLeads(filteredLeads[i], filteredLeads[j], sortField,
                           sortDirection) = 0

\* An unknown field in ascending direction over a filtered list of leads
\* with different scores.
C22_Witness ==
    /\ sortField \notin SortFields
    /\ sortDirection = "asc"
    /\ filteredLeads # initialLeads
    /\ \E i, j \in 1..Len(filteredLeads) :
          i < j /\ filteredLeads[i].score > filteredLeads[j].score

\* C23: setSortDirection(d) sets sortDirection to d, whatever the field and
\* the direction were (no toggle), and leaves sortField, currentPage,
\* searchQuery, selectedSources and selectedTags as they were.
C23_DirectionStep ==
    lastOp'.op = "setSortDirection" =>
        /\ sortDirection' = lastOp'.arg
        /\ sortField' = sortField
        /\ currentPage' = currentPage
        /\ searchQuery' = searchQuery
        /\ selectedSources' = selectedSources
        /\ selectedTags' = selectedTags

C23_SetSortDirection == [][C23_DirectionStep]_vars

\* setSortDirection("asc") has run on page 2 under filters and a sort by
\* score.
C23_Witness ==
    /\ lastOp = [op |-> "setSortDirection", arg |-> "asc"]
    /\ sortDirection = "asc"
    /\ sortField = "score"
    /\ currentPage = 2
    /\ selectedSources # <<>>

\* No step changes the input leads, and a sort operation leaves filteredLeads
\* as it was.
C24_InputStep ==
    /\ initialLeads' = initialLeads
    /\ lastOp'.op \in {"setSortField", "setSortFieldTwice", "setSortDirection"}
          => filteredLeads' = filteredLeads

\* C24: the input leads are the leads the hook was constructed with, in the
\* same order, after any sequence of operations, sorts included;
\* filteredLeads keeps the input order whatever the sort state is.
C24_InputNeverMutated ==
    /\ [](/\ initialLeads = LeadsOf(Len(initialLeads))
          /\ \A i, j \in 1..Len(filteredLeads) :
                i < j => PositionOf(initialLeads, filteredLeads[i].id)
                           < PositionOf(initialLeads, filteredLeads[j].id))
    /\ [][C24_InputStep]_vars

\* A sort has put the four hand-written leads in another order than the
\* input has them.
C24_Witness ==
    /\ lastOp.op = "setSortField"
    /\ Len(initialLeads) = 4
    /\ filteredLeads = initialLeads
    /\ sortedLeads # initialLeads

\* C25: when pages are changed only by the Previous and Next buttons (each
\* enabled only as PaginationControls enables it), next to the filter, sort
\* and clear events, currentPage is between 1 and max(1, totalPages) in every
\* state, and the page shows leads whenever there are leads.
C25_PageInRange ==
    /\ 1 <= currentPage
    /\ currentPage <= Max(1, totalPages)
    /\ totalLeads > 0 => paginatedLeads # <<>>

\* Next has led to the last of three pages, where it is disabled.
C25_Witness ==
    /\ lastOp = [op |-> "setCurrentPage", arg |-> 3]
    /\ currentPage = 3
    /\ totalPages = 3
    /\ ~canGoNext
    /\ paginatedLeads # <<>>

\* The field is compared with the sort field of the moment of the call: after
\* setSortField(f) with another f than the current field, a second
\* setSortField(f) leaves the field f and the direction asc, both when a
\* render lies between the two calls and when the two calls are made through
\* the same callback in one batch.
C26_SameFieldStep ==
    /\ (lastOp'.op = "setSortField" /\ lastOp'.arg # sortField) =>
          nextSortState(sortField', sortDirection', lastOp'.arg)
            = [field |-> lastOp'.arg, direction |-> "asc"]
    /\ (lastOp'.op = "setSortFieldTwice" /\ lastOp'.arg # sortField) =>
          /\ sortField' = lastOp'.arg
          /\ sortDirection' = "asc"

\* C26: setSortField(f) with f not the current field, followed by
\* setSortField(f) again, always ends with sortField = f and sortDirection =
\* asc, also when the second call goes through the same callback before the
\* hook has rendered with the new field.
C26_SameFieldAtCallTime == [][C26_SameFieldStep]_vars

\* The effect runs only when it is due, finds currentPage = 1 and leaves the
\* page and the leads shown as they were; it does not run right after a page
\* has been chosen.
C27_EffectStep ==
    /\ lastOp'.op = "resetPagination" =>
          /\ effectPending
          /\ currentPage = 1
          /\ currentPage' = currentPage
          /\ paginatedLeads' = paginatedLeads
    /\ lastOp.op = "setCurrentPage" => lastOp'.op # "resetPagination"

\* C27: whenever the reset-pagination effect of LeadList runs (after the
\* mount and after every change of searchQuery, selectedSources or
\* selectedTags) currentPage is 1 already: the effect does not change the
\* page shown and does not override a page chosen after the filter change.
C27_EffectFindsPageOne ==
    /\ [](effectPending => currentPage = 1)
    /\ [][C27_EffectStep]_vars

\* The effect has run after a filter change that left more than one page.
C27_Witness ==
    /\ lastOp.op = "resetPagination"
    /\ searchQuery # ""
    /\ currentPage = 1
    /\ totalPages >= 2

\* C28: every lead of paginatedLeads passes the current filter (search,
\* source and tag dimension), no lead is in paginatedLeads twice, and
\* paginatedLeads holds at most 10 leads.
C28_PageWithinFilter ==
    /\ \A i \in 1..Len(paginatedLeads) :
          /\ SearchDimension(paginatedLeads[i])
          /\ SourceDimension(paginatedLeads[i])
          /\ TagDimension(paginatedLeads[i])
    /\ \A i, j \in 1..Len(paginatedLeads) :
          i # j => paginatedLeads[i].id # paginatedLeads[j].id
    /\ Len(paginatedLeads) <= 10

\* A filter has just been changed on a list that fills its first page and
\* keeps only a part of the input.
C28_Witness ==
    /\ lastOp.op \in FilterOps \cup {"clearFilters"}
    /\ Len(paginatedLeads) = 10
    /\ Len(filteredLeads) < Len(initialLeads)
    /\ sortField # "createdAt"

NoDuplicates(sel) == \A i, j \in 1..Len(sel) : i # j => sel[i] # sel[j]

\* C29: selectedSources and selectedTags never hold a value twice, so one
\* toggle of a selected value leaves no occurrence of it.
C29_NoDuplicateSelection ==
    /\ NoDuplicates(selectedSources)
    /\ NoDuplicates(selectedTags)
    /\ \A x \in Range(selectedSources) :
          /\ x \notin Range(toggled(selectedSources, x))
          /\ Len(toggled(selectedSources, x)) = Len(selectedSources) - 1
    /\ \A x \in Range(selectedTags) :
          /\ x \notin Range(toggled(selectedTags, x))
          /\ Len(toggled(selectedTags, x)) = Len(selectedTags) - 1

\* "sms" has been selected, removed and selected again: it stands after
\* "web_form"; two tags are selected.
C29_Witness ==
    /\ selectedSources = <<"web_form", "sms">>
    /\ Len(selectedTags) = 2
    /\ lastOp.op = "toggleSource"

\* C30: when the pagination controls are rendered and currentPage is in
\* 1..totalPages, 1 <= startItem <= endItem <= totalItems, startItem is
\* (currentPage-1)*itemsPerPage + 1, endItem is min(currentPage*itemsPerPage,
\* totalItems), and endItem - startItem + 1 is the number of leads shown.
C30_DisplayedRange ==
    (paginationRendered /\ currentPage \in 1..totalPages) =>
        /\ 1 <= startItem
        /\ startItem <= endItem
        /\ endItem <= totalLeads
        /\ startItem = (currentPage - 1) * 10 + 1
        /\ endItem = IF currentPage * 10 < totalLeads THEN currentPage * 10
                     ELSE totalLeads
        /\ endItem - startItem + 1 = Len(paginatedLeads)

\* The last page of a filtered list is partly filled: "Showing 11 to n".
C30_Witness ==
    /\ paginationRendered
    /\ currentPage = 2
    /\ totalPages = 2
    /\ startItem = 11
    /\ endItem = totalLeads
    /\ endItem < 20
    /\ searchQuery # ""

====
